---- MODULE Spec2Model ----
(***************************************************************************)
(* A model of adelaidetimetablescapper/app.py: the three scraping calls    *)
(* get_all_subject_areas, get_area_courses and get_course_timetable, the   *)
(* response check they share and the ClassSchedule grouping.               *)
(*                                                                         *)
(* Text is a sequence of one-character strings, so that slicing            *)
(* (section[:2]), str.strip, int() and f-string formatting are computed.   *)
(* Objects of class Class live in `heap`; a reference is an index into it  *)
(* and 0 is Python's None.                                                 *)
(***************************************************************************)
EXTENDS Integers, Sequences, FiniteSets, TLC

VARIABLES call, pc, status, body, index, heap, current_class, classes,
          schedule, courses, areas, error, returned, caller

vars == <<call, pc, status, body, index, heap, current_class, classes,
          schedule, courses, areas, error, returned, caller>>

(***************************************************************************)
(* Bounds of the model.                                                    *)
(***************************************************************************)
MaxRows == 3

MaxListRows == 3

MaxOptions == 3

\* The changes the caller makes to the class list of a returned schedule.
MaxEdits == 1

(***************************************************************************)
(* Text helpers.                                                           *)
(***************************************************************************)
\* The value of Tag.string for a cell that has no single text child. It is a
\* one-element sequence whose element is no character, so it equals no text.
NoneStr == <<"<None>">>

\* str(x): the text of x, "None" for None.
Str(s) == IF s = NoneStr THEN <<"N", "o", "n", "e">> ELSE s

Min(a, b) == IF a < b THEN a ELSE b

\* s[:n]
Take(s, n) == SubSeq(s, 1, Min(n, Len(s)))

IsSpace(c) == c = " "

RECURSIVE LStrip(_)
LStrip(s) == IF s # <<>> /\ IsSpace(Head(s)) THEN LStrip(Tail(s)) ELSE s

RECURSIVE RStrip(_)
RStrip(s) ==
    IF s # <<>> /\ IsSpace(s[Len(s)]) THEN RStrip(SubSeq(s, 1, Len(s) - 1)) ELSE s

\* str.strip()
Strip(s) == RStrip(LStrip(s))

Digits == {"0", "1", "2", "3", "4", "5", "6", "7", "8", "9"}

DigitVal(c) ==
    CASE c = "0" -> 0 [] c = "1" -> 1 [] c = "2" -> 2 [] c = "3" -> 3
      [] c = "4" -> 4 [] c = "5" -> 5 [] c = "6" -> 6 [] c = "7" -> 7
      [] c = "8" -> 8 [] c = "9" -> 9

RECURSIVE DecVal(_)
DecVal(s) == IF s = <<>> THEN 0 ELSE 10 * DecVal(SubSeq(s, 1, Len(s) - 1)) + DigitVal(s[Len(s)])

\* int(x) for the text of a cell: TypeError for None, ValueError unless the
\* stripped text is an optional sign followed by decimal digits.
ParseInt(s) ==
    IF s = NoneStr THEN [err |-> "TypeError", val |-> 0]
    ELSE LET t == Strip(s)
             signed == t # <<>> /\ Head(t) \in {"+", "-"}
             d == IF signed THEN Tail(t) ELSE t
         IN  IF d # <<>> /\ \A i \in 1..Len(d) : d[i] \in Digits
             THEN [err |-> "", val |-> IF signed /\ Head(t) = "-" THEN 0 - DecVal(d) ELSE DecVal(d)]
             ELSE [err |-> "ValueError", val |-> 0]

(***************************************************************************)
(* dict: a function from keys to values; d[k] = v either adds k or         *)
(* replaces the value k had.                                               *)
(***************************************************************************)
EmptyDict == <<>>

\* Mutant of DictSet: an existing key keeps its value (dict.setdefault).
DictSetFirstWins(d, k, v) ==
    [x \in DOMAIN d \cup {k} |-> IF x \in DOMAIN d THEN d[x] ELSE v]

DictSet(d, k, v) == [x \in DOMAIN d \cup {k} |-> IF x = k THEN v ELSE d[x]]

(***************************************************************************)
(* The class-type table and ClassSchedule.                                 *)
(***************************************************************************)
CLASSTYPE ==
    (<<"L", "E">> :> "Lecture") @@ (<<"W", "R">> :> "Workshop") @@
    (<<"P", "R">> :> "Practical") @@ (<<"P", "J">> :> "Project") @@
    (<<"T", "U">> :> "Tutorial")

\* Mutant of GetClassType: CLASSTYPE.get(prefix, "Other") in place of the
\* subscript, so an unknown prefix raises nothing.
GetClassTypeLenient(h, item) ==
    IF item = 0 THEN [err |-> "AttributeError", label |-> ""]
    ELSE IF h[item].section = NoneStr THEN [err |-> "TypeError", label |-> ""]
    ELSE IF Take(h[item].section, 2) \in DOMAIN CLASSTYPE
         THEN [err |-> "", label |-> CLASSTYPE[Take(h[item].section, 2)]]
         ELSE [err |-> "", label |-> "Other"]

\* ClassSchedule._get_class_type(item) on a reference: item.section of None
\* raises AttributeError, None[:2] raises TypeError, a prefix that is no key
\* of CLASSTYPE raises KeyError.
GetClassType(h, item) ==
    IF item = 0 THEN [err |-> "AttributeError", label |-> ""]
    ELSE IF h[item].section = NoneStr THEN [err |-> "TypeError", label |-> ""]
    ELSE IF Take(h[item].section, 2) \in DOMAIN CLASSTYPE
         THEN [err |-> "", label |-> CLASSTYPE[Take(h[item].section, 2)]]
         ELSE [err |-> "KeyError", label |-> ""]

\* Mutant of GroupAdd: the group is started anew for every class.
GroupAddReplace(groups, label, item) == DictSet(groups, label, <<item>>)

\* Mutant of GroupAdd: the class is put at the front of its group.
GroupAddInFront(groups, label, item) ==
    IF label \in DOMAIN groups
    THEN DictSet(groups, label, <<item>> \o groups[label])
    ELSE DictSet(groups, label, <<item>>)

\* One iteration of the loop of get_class_type: append to the group of the
\* label, or start the group.
GroupAdd(groups, label, item) ==
    IF label \in DOMAIN groups
    THEN DictSet(groups, label, Append(groups[label], item))
    ELSE DictSet(groups, label, <<item>>)

\* ClassSchedule.get_class_type over items[i..]: the grouping built so far and
\* the exception that stopped it, if any.
RECURSIVE GroupLoop(_, _, _, _)
GroupLoop(h, items, i, groups) ==
    IF i > Len(items) THEN [err |-> "", groups |-> groups]
    ELSE LET t == GetClassType(h, items[i])
         IN  IF t.err # "" THEN [err |-> t.err, groups |-> groups]
             ELSE GroupLoop(h, items, i + 1, GroupAdd(groups, t.label, items[i]))

get_class_type(h, items) == GroupLoop(h, items, 1, EmptyDict)

(***************************************************************************)
(* The response check.                                                     *)
(***************************************************************************)
\* requests.codes.ok
codes_ok == 200

\* Response.raise_for_status(): raises HTTPError for a client or server error
\* status (400..599) and returns normally for every other status.
RaiseForStatus(st) == IF 400 <= st /\ st < 600 THEN "HTTPError" ELSE ""

\* validate_response(response): the exception it raises, "" when it returns.
validate_response(st) == IF st # codes_ok THEN RaiseForStatus(st) ELSE ""

(***************************************************************************)
(* The inputs: response statuses and page bodies.                          *)
(***************************************************************************)
Statuses == {200, 204, 404}

\* Cell texts of the timetable page.
LE01 == <<"L", "E", "0", "1">>
TU01 == <<"T", "U", "0", "1">>
XX01 == <<"X", "X", "0", "1">>
Date1 == <<<<"d", "1">>, <<"M">>, <<"9">>, <<"R">>>>
Date2 == <<<<"d", "2">>, <<"T">>, <<"9">>, <<"R">>>>
Date3 == <<<<"d", "3">>, NoneStr, <<" ">>, <<"R">>>>

\* A <tr> of the timetable: th is whether it holds a <th>, hasClass whether it
\* has a class attribute, class the attribute's token list, td the .string of
\* each of its <td> cells.
TimetableRow(th, hasClass, class, td) ==
    [th |-> th, hasClass |-> hasClass, class |-> class, td |-> td]

DataRow(number, section, first) ==
    TimetableRow(FALSE, TRUE, <<"data">>, <<number, section, <<"3", "0">>, <<"5">>>> \o first)

TimetableRows ==
    { TimetableRow(TRUE, FALSE, <<>>, <<>>),
      TimetableRow(TRUE, TRUE, <<"data">>, <<<<"9">>, LE01, <<"3", "0">>, <<"5">>>> \o Date3),
      DataRow(<<"1">>, LE01, Date1),
      DataRow(<<"2">>, TU01, Date2),
      DataRow(<<"3">>, XX01, Date1),
      DataRow(<<"4">>, <<"L">>, Date2),
      DataRow(<<"5">>, NoneStr, Date1),
      TimetableRow(FALSE, TRUE, <<"data">>, <<<<"6">>, LE01, <<"3", "0">>, <<"5">>>>),
      TimetableRow(FALSE, FALSE, <<>>, Date2),
      TimetableRow(FALSE, FALSE, <<>>, Date3 \o <<<<"x">>>>),
      TimetableRow(FALSE, FALSE, <<>>, <<<<>>>>),
      TimetableRow(FALSE, FALSE, <<>>, <<<<"d", "2">>, <<"T">>>>),
      TimetableRow(FALSE, TRUE, <<"data", "odd">>, Date3) }

\* A <td> of the listing: its .string and the <a> elements in it.
Cell(s) == [string |-> s, a |-> <<>>]

Link(s, href) == [string |-> s, a |-> <<[hasHref |-> TRUE, href |-> href]>>]

S1 == <<"S", "1">>

ListingRow(term, catalogue, title, unit, campus) ==
    [td |-> <<Cell(term), Cell(catalogue), title, Cell(unit), Cell(<<"U">>), Cell(campus)>>]

ListingRows ==
    { [td |-> <<>>],
      ListingRow(S1, <<"1">>, Link(<<"a">>, <<"u", "1">>), <<"3">>, <<"N", " ", "T">>),
      ListingRow(<<" ">> \o S1 \o <<" ">>, <<"1">>, Link(<<"b">>, <<"u", "2">>), <<" ", "1", "2", " ">>, <<"N", " ", "T">>),
      ListingRow(S1, <<"1", " ", "N">>, Link(<<"c">>, <<"u", "3">>), <<"6">>, <<"T">>),
      ListingRow(S1, NoneStr, Link(<<"d">>, <<"u", "4">>), <<"x">>, <<"T">>),
      ListingRow(S1, <<"2">>, Cell(<<"e">>), <<"3">>, <<"T">>),
      [td |-> <<Cell(S1), Cell(<<"3">>), Link(<<"f">>, <<"u", "5">>), Cell(<<"3">>), Cell(<<"U">>)>>],
      [td |-> <<Cell(<<"S", "2">>), Cell(NoneStr), Link(<<"g">>, <<"u", "6">>), Cell(<<"-", "0">>),
                Cell(<<"U">>), Cell(<<"T">>), Cell(<<"z">>)>>] }

\* An <option> of the subject-area dropdown: hasValue is whether it has a value
\* attribute, value the attribute, string its .string (the display name).
Options ==
    [hasValue : {TRUE}, value : {<<>>, <<" ">>, <<"A">>}, string : {<<"x">>, <<"y">>}] \cup
    {[hasValue |-> FALSE, value |-> <<>>, string |-> <<"x">>]}

SeqsUpTo(S, n) == UNION {[1..k -> S] : k \in 0..n}

Calls == {"get_all_subject_areas", "get_area_courses", "get_course_timetable"}

\* The page a call is answered with: found is whether the element the call
\* looks its rows up in exists, rows the <tr> (or <option>) elements in it.
Bodies(c) ==
    {[found |-> FALSE, rows |-> <<>>]} \cup
    [found : {TRUE},
     rows : CASE c = "get_course_timetable" -> SeqsUpTo(TimetableRows, MaxRows)
              [] c = "get_area_courses" -> SeqsUpTo(ListingRows, MaxListRows)
              [] c = "get_all_subject_areas" -> SeqsUpTo(Options, MaxOptions)]

(***************************************************************************)
(* State.                                                                  *)
(***************************************************************************)
NoSchedule == [classes |-> <<>>, _classes |-> EmptyDict]

\* What the caller holds of an earlier call: nothing yet.
NoResult ==
    [taken |-> FALSE, schedule |-> NoSchedule, courses |-> EmptyDict, areas |-> EmptyDict,
     snapshot |-> NoSchedule]

Init ==
    /\ call \in Calls
    /\ pc = "request"
    /\ status = 0
    /\ body = [found |-> FALSE, rows |-> <<>>]
    /\ index = 0
    /\ heap = <<>>
    /\ current_class = 0
    /\ classes = <<>>
    /\ schedule = NoSchedule
    /\ courses = EmptyDict
    /\ areas = EmptyDict
    /\ error = ""
    /\ returned = FALSE
    /\ caller = [op |-> "", edits |-> 0, first |-> NoResult]

\* An exception leaves the call: nothing is returned.
Raise(e) ==
    /\ pc' = "failed"
    /\ error' = e
    /\ returned' = FALSE

\* requests.get(...): the server's answer. To the second call of a caller that
\* repeats its call, the server gives the markup it gave to the first.
Get ==
    /\ pc = "request"
    /\ \E st \in Statuses, b \in (IF caller.first.taken THEN {body} ELSE Bodies(call)) :
           status' = st /\ body' = b
    /\ pc' = "validate"
    /\ UNCHANGED <<call, caller, index, heap, current_class, classes, schedule, courses, areas,
                   error, returned>>

ValidateRaise ==
    /\ pc = "validate"
    /\ validate_response(status) # ""
    /\ Raise(validate_response(status))
    /\ UNCHANGED <<call, caller, status, body, index, heap, current_class, classes, schedule,
                   courses, areas>>

ValidatePass ==
    /\ pc = "validate"
    /\ validate_response(status) = ""
    /\ pc' = "find"
    /\ UNCHANGED <<call, caller, status, body, index, heap, current_class, classes, schedule,
                   courses, areas, error, returned>>

\* soup.find(...) gave None: the attribute access on it raises.
FindFail ==
    /\ pc = "find"
    /\ ~body.found
    /\ Raise("AttributeError")
    /\ UNCHANGED <<call, caller, status, body, index, heap, current_class, classes, schedule,
                   courses, areas>>

FindRows ==
    /\ pc = "find"
    /\ body.found
    /\ call # "get_all_subject_areas"
    /\ pc' = "loop"
    /\ UNCHANGED <<call, caller, status, body, index, heap, current_class, classes, schedule,
                   courses, areas, error, returned>>

(***************************************************************************)
(* get_course_timetable: the row loop, the final flush, the construction   *)
(* of the ClassSchedule.                                                   *)
(***************************************************************************)
InTimetableLoop ==
    /\ call = "get_course_timetable"
    /\ pc = "loop"
    /\ index < Len(body.rows)

\* The row the loop is at.
Row == body.rows[index + 1]

\* Mutant of HasHeaderCell: a row with the "data" marker is never taken for
\* a header row.
HasHeaderCellUnlessData(row) == row.th /\ ~(row.hasClass /\ row.class = <<"data">>)

\* row.find("th") is not None
HasHeaderCell(row) == row.th

\* row.has_attr("class") and row['class'] == ['data']
IsDataRow(row) == row.hasClass /\ row.class = <<"data">>

\* Date(date=..., day=..., time=..., location=...) from four cells
ToDate(cells) == [date |-> cells[1], day |-> cells[2], time |-> cells[3], location |-> cells[4]]

\* The Date object a constructor call makes: the fields and the identity id,
\* which no other Date object has.
DateObject(id, cells) ==
    [id |-> id, date |-> ToDate(cells).date, day |-> ToDate(cells).day,
     time |-> ToDate(cells).time, location |-> ToDate(cells).location]

\* The fields of a Date object.
DateValue(d) == [date |-> d.date, day |-> d.day, time |-> d.time, location |-> d.location]

\* The identity of the next Date object: one more than the Date objects made
\* so far, all of which are in the dates of some Class of the heap.
RECURSIVE DatesMade(_)
DatesMade(h) == IF h = <<>> THEN 0 ELSE Len(Head(h).dates) + DatesMade(Tail(h))

NextDateId(h) == DatesMade(h) + 1

\* Class(number, section, size, available, dates) from the cells of a data
\* row, dates being a new list of one new Date
ToClass(h, td) ==
    [number |-> td[1], section |-> td[2], size |-> td[3], available |-> td[4],
     dates |-> <<DateObject(NextDateId(h), SubSeq(td, 5, 8))>>]

\* Mutant of AppendDate: all Class objects share one dates list, so the new
\* Date shows in every class.
AppendDateShared(h, ref, cells) ==
    [r \in 1..Len(h) |-> [h[r] EXCEPT !.dates = Append(@, DateObject(NextDateId(h), cells))]]

\* current_class.dates.append(Date(...))
AppendDate(h, ref, cells) ==
    [h EXCEPT ![ref].dates = Append(@, DateObject(NextDateId(h), cells))]

\* Mutant of EmitOpen: classes.insert(0, current_class).
EmitOpenInFront(cs, ref) == IF ref # 0 THEN <<ref>> \o cs ELSE cs

\* if current_class is not None: classes.append(current_class)
EmitOpen(cs, ref) == IF ref # 0 THEN Append(cs, ref) ELSE cs

\* classes.append(current_class) after the loop
Flush(cs, ref) == Append(cs, ref)

RowHeader ==
    /\ InTimetableLoop
    /\ HasHeaderCell(Row)
    /\ index' = index + 1
    /\ UNCHANGED <<call, caller, pc, status, body, heap, current_class, classes, schedule, courses,
                   areas, error, returned>>

RowData ==
    /\ InTimetableLoop
    /\ ~HasHeaderCell(Row)
    /\ IsDataRow(Row)
    /\ Len(Row.td) >= 8
    /\ classes' = EmitOpen(classes, current_class)
    /\ heap' = Append(heap, ToClass(heap, Row.td))
    /\ current_class' = Len(heap) + 1
    /\ index' = index + 1
    /\ UNCHANGED <<call, caller, pc, status, body, schedule, courses, areas, error, returned>>

\* A data row with fewer than 8 cells: table_data[i] raises, after the open
\* class was appended.
RowDataIndexError ==
    /\ InTimetableLoop
    /\ ~HasHeaderCell(Row)
    /\ IsDataRow(Row)
    /\ Len(Row.td) < 8
    /\ classes' = EmitOpen(classes, current_class)
    /\ Raise("IndexError")
    /\ UNCHANGED <<call, caller, status, body, index, heap, current_class, schedule, courses, areas>>

\* A row with a class attribute that is not ['data']: neither branch runs.
RowOtherClass ==
    /\ InTimetableLoop
    /\ ~HasHeaderCell(Row)
    /\ Row.hasClass
    /\ ~IsDataRow(Row)
    /\ index' = index + 1
    /\ UNCHANGED <<call, caller, pc, status, body, heap, current_class, classes, schedule, courses,
                   areas, error, returned>>

RowSingleCell ==
    /\ InTimetableLoop
    /\ ~HasHeaderCell(Row)
    /\ ~Row.hasClass
    /\ Len(Row.td) = 1
    /\ index' = index + 1
    /\ UNCHANGED <<call, caller, pc, status, body, heap, current_class, classes, schedule, courses,
                   areas, error, returned>>

RowSubsequent ==
    /\ InTimetableLoop
    /\ ~HasHeaderCell(Row)
    /\ ~Row.hasClass
    /\ Len(Row.td) # 1
    /\ Len(Row.td) >= 4
    /\ current_class # 0
    /\ heap' = AppendDate(heap, current_class, Row.td)
    /\ index' = index + 1
    /\ UNCHANGED <<call, caller, pc, status, body, current_class, classes, schedule, courses, areas,
                   error, returned>>

\* table_data[i] raises for a row with 0, 2 or 3 cells.
RowSubsequentIndexError ==
    /\ InTimetableLoop
    /\ ~HasHeaderCell(Row)
    /\ ~Row.hasClass
    /\ Len(Row.td) # 1
    /\ Len(Row.td) < 4
    /\ Raise("IndexError")
    /\ UNCHANGED <<call, caller, status, body, index, heap, current_class, classes, schedule,
                   courses, areas>>

\* current_class is None: current_class.dates raises.
RowSubsequentNoClass ==
    /\ InTimetableLoop
    /\ ~HasHeaderCell(Row)
    /\ ~Row.hasClass
    /\ Len(Row.td) # 1
    /\ Len(Row.td) >= 4
    /\ current_class = 0
    /\ Raise("AttributeError")
    /\ UNCHANGED <<call, caller, status, body, index, heap, current_class, classes, schedule,
                   courses, areas>>

\* The end of the loop: classes.append(current_class).
TimetableFlush ==
    /\ call = "get_course_timetable"
    /\ pc = "loop"
    /\ index = Len(body.rows)
    /\ classes' = Flush(classes, current_class)
    /\ pc' = "construct"
    /\ UNCHANGED <<call, caller, status, body, index, heap, current_class, schedule, courses, areas,
                   error, returned>>

\* return ClassSchedule(classes): __post_init__ ran get_class_type to its end.
TimetableReturn ==
    /\ pc = "construct"
    /\ get_class_type(heap, classes).err = ""
    /\ schedule' = [classes |-> classes, _classes |-> get_class_type(heap, classes).groups]
    /\ pc' = "done"
    /\ returned' = TRUE
    /\ UNCHANGED <<call, caller, status, body, index, heap, current_class, classes, courses, areas,
                   error>>

\* ClassSchedule(classes) raises out of __post_init__: the object, with the
\* grouping as far as it got, is dropped.
TimetableConstructError ==
    /\ pc = "construct"
    /\ get_class_type(heap, classes).err # ""
    /\ schedule' = [classes |-> classes, _classes |-> get_class_type(heap, classes).groups]
    /\ Raise(get_class_type(heap, classes).err)
    /\ UNCHANGED <<call, caller, status, body, index, heap, current_class, classes, courses, areas>>

(***************************************************************************)
(* The caller's use of a returned ClassSchedule. The dataclass is not      *)
(* frozen and `classes` is a plain list: the caller may change it, and may *)
(* call get_class_type() again. caller.op is the last such operation.      *)
(***************************************************************************)
HoldsSchedule ==
    /\ call = "get_course_timetable"
    /\ pc = "done"
    /\ returned

MayEdit == HoldsSchedule /\ caller.edits < MaxEdits

\* The cells of the Class objects the caller builds.
CallerCells == [append |-> DataRow(<<"7">>, XX01, Date2).td, replace |-> DataRow(<<"8">>, TU01, Date1).td]

\* schedule.classes.append(Class(...))
ScheduleAppend ==
    /\ MayEdit
    /\ heap' = Append(heap, ToClass(heap, CallerCells.append))
    /\ schedule' = [schedule EXCEPT !.classes = Append(@, Len(heap) + 1)]
    /\ caller' = [caller EXCEPT !.op = "append", !.edits = @ + 1]
    /\ UNCHANGED <<call, pc, status, body, index, current_class, classes, courses, areas,
                   error, returned>>

\* schedule.classes.pop()
SchedulePop ==
    /\ MayEdit
    /\ Len(schedule.classes) > 0
    /\ schedule' = [schedule EXCEPT !.classes = SubSeq(@, 1, Len(@) - 1)]
    /\ caller' = [caller EXCEPT !.op = "pop", !.edits = @ + 1]
    /\ UNCHANGED <<call, pc, status, body, index, heap, current_class, classes, courses,
                   areas, error, returned>>

\* schedule.classes[0] = Class(...)
ScheduleReplace ==
    /\ MayEdit
    /\ Len(schedule.classes) > 0
    /\ heap' = Append(heap, ToClass(heap, CallerCells.replace))
    /\ schedule' = [schedule EXCEPT !.classes[1] = Len(heap) + 1]
    /\ caller' = [caller EXCEPT !.op = "replace", !.edits = @ + 1]
    /\ UNCHANGED <<call, pc, status, body, index, current_class, classes, courses, areas,
                   error, returned>>

\* Mutant of ScheduleRegroup: get_class_type without its first line, the
\* reset self._classes = {}.
ScheduleRegroupNoReset ==
    /\ HoldsSchedule
    /\ get_class_type(heap, schedule.classes).err = ""
    /\ schedule' = [schedule EXCEPT
                       !._classes = GroupLoop(heap, schedule.classes, 1, schedule._classes).groups]
    /\ caller' = [caller EXCEPT !.op = "get_class_type"]
    /\ UNCHANGED <<call, pc, status, body, index, heap, current_class, classes, courses,
                   areas, error, returned>>

\* schedule.get_class_type() returns.
ScheduleRegroup ==
    /\ HoldsSchedule
    /\ get_class_type(heap, schedule.classes).err = ""
    /\ schedule' = [schedule EXCEPT !._classes = get_class_type(heap, schedule.classes).groups]
    /\ caller' = [caller EXCEPT !.op = "get_class_type"]
    /\ UNCHANGED <<call, pc, status, body, index, heap, current_class, classes, courses,
                   areas, error, returned>>

\* schedule.get_class_type() raises: the grouping is left as far as it got.
ScheduleRegroupError ==
    /\ HoldsSchedule
    /\ get_class_type(heap, schedule.classes).err # ""
    /\ schedule' = [schedule EXCEPT !._classes = get_class_type(heap, schedule.classes).groups]
    /\ caller' = [caller EXCEPT !.op = "get_class_type raised"]
    /\ UNCHANGED <<call, pc, status, body, index, heap, current_class, classes, courses,
                   areas, error, returned>>

(***************************************************************************)
(* The caller keeps the result of a call and makes the same call again.    *)
(* The call starts with its locals as the function sets them (classes =    *)
(* [], current_class = None, courses = {}); the objects of the first       *)
(* result stay in the heap.                                                *)
(***************************************************************************)
\* A Class object with the objects it refers to, as values.
DeepClass(h, ref) ==
    [number |-> h[ref].number, section |-> h[ref].section, size |-> h[ref].size,
     available |-> h[ref].available,
     dates |-> [i \in 1..Len(h[ref].dates) |-> DateValue(h[ref].dates[i])]]

\* A ClassSchedule with the objects it refers to, as values: what deep
\* equality compares.
DeepSchedule(h, sch) ==
    [classes |-> [i \in 1..Len(sch.classes) |-> DeepClass(h, sch.classes[i])],
     _classes |-> [l \in DOMAIN sch._classes |->
                      [p \in 1..Len(sch._classes[l]) |-> DeepClass(h, sch._classes[l][p])]]]

\* What the caller keeps of the call that returned: the result, and for the
\* schedule a deep copy of it as it was returned.
Kept ==
    [taken |-> TRUE, schedule |-> schedule, courses |-> courses, areas |-> areas,
     snapshot |-> DeepSchedule(heap, schedule)]

\* Mutant of CallAgain: `classes` outlives the call (a module-level list, or a
\* mutable default argument).
CallAgainKeepingClasses ==
    /\ pc = "done"
    /\ returned
    /\ ~caller.first.taken
    /\ caller.op = ""
    /\ caller' = [caller EXCEPT !.first = Kept]
    /\ pc' = "request"
    /\ index' = 0
    /\ current_class' = 0
    /\ schedule' = NoSchedule
    /\ courses' = EmptyDict
    /\ areas' = EmptyDict
    /\ error' = ""
    /\ returned' = FALSE
    /\ UNCHANGED <<call, status, body, heap, classes>>

CallAgain ==
    /\ pc = "done"
    /\ returned
    /\ ~caller.first.taken
    /\ caller.op = ""
    /\ caller' = [caller EXCEPT !.first = Kept]
    /\ pc' = "request"
    /\ index' = 0
    /\ current_class' = 0
    /\ classes' = <<>>
    /\ schedule' = NoSchedule
    /\ courses' = EmptyDict
    /\ areas' = EmptyDict
    /\ error' = ""
    /\ returned' = FALSE
    /\ UNCHANGED <<call, status, body, heap>>

(***************************************************************************)
(* get_area_courses.                                                       *)
(***************************************************************************)
InListingLoop ==
    /\ call = "get_area_courses"
    /\ pc = "loop"
    /\ index < Len(body.rows)

\* f"{term} {catalogue} {campus}"
CourseKey(term, catalogue, campus) ==
    Str(term) \o <<" ">> \o Str(catalogue) \o <<" ">> \o Str(campus)

\* The body of the loop for one row: the exception it raises, or the key and
\* the Subject it stores.
ToSubject(td) ==
    LET fail(e) == [err |-> e, key |-> <<>>, subject |-> <<>>]
    IN  IF Len(td) < 3 THEN fail("IndexError")
        ELSE IF td[3].a = <<>> THEN fail("TypeError")
        ELSE IF ~td[3].a[1].hasHref THEN fail("KeyError")
        ELSE IF Len(td) < 4 THEN fail("IndexError")
        ELSE IF ParseInt(td[4].string).err # "" THEN fail(ParseInt(td[4].string).err)
        ELSE IF Len(td) < 6 THEN fail("IndexError")
        ELSE LET term == Strip(Str(td[1].string))
             IN  [err |-> "",
                  key |-> CourseKey(term, td[2].string, td[6].string),
                  subject |-> [term |-> term, catalogue |-> td[2].string,
                               title |-> td[3].string, unit |-> ParseInt(td[4].string).val,
                               career |-> td[5].string, campus |-> td[6].string,
                               url |-> td[3].a[1].href]]

\* Mutant of SkipsIndex: the first two rows are skipped.
SkipsIndexUpToOne(i) == i <= 1

\* if index == 0
SkipsIndex(i) == i = 0

\* if index == 0: continue
ListingSkipFirst ==
    /\ InListingLoop
    /\ SkipsIndex(index)
    /\ index' = index + 1
    /\ UNCHANGED <<call, caller, pc, status, body, heap, current_class, classes, schedule, courses,
                   areas, error, returned>>

ListingRowStored ==
    /\ InListingLoop
    /\ ~SkipsIndex(index)
    /\ ToSubject(Row.td).err = ""
    /\ courses' = DictSet(courses, ToSubject(Row.td).key, ToSubject(Row.td).subject)
    /\ index' = index + 1
    /\ UNCHANGED <<call, caller, pc, status, body, heap, current_class, classes, schedule, areas,
                   error, returned>>

\* Mutant of ListingRowError: the exception of a row is caught and the loop
\* goes on (try/except: continue).
ListingRowSwallowed ==
    /\ InListingLoop
    /\ ~SkipsIndex(index)
    /\ ToSubject(Row.td).err # ""
    /\ index' = index + 1
    /\ UNCHANGED <<call, caller, pc, status, body, heap, current_class, classes, schedule, courses,
                   areas, error, returned>>

\* The loop body raises: the exception leaves get_area_courses.
ListingRowError ==
    /\ InListingLoop
    /\ ~SkipsIndex(index)
    /\ ToSubject(Row.td).err # ""
    /\ Raise(ToSubject(Row.td).err)
    /\ UNCHANGED <<call, caller, status, body, index, heap, current_class, classes, schedule,
                   courses, areas>>

\* return courses
ListingReturn ==
    /\ call = "get_area_courses"
    /\ pc = "loop"
    /\ index = Len(body.rows)
    /\ pc' = "done"
    /\ returned' = TRUE
    /\ UNCHANGED <<call, caller, status, body, index, heap, current_class, classes, schedule,
                   courses, areas, error>>

(***************************************************************************)
(* get_all_subject_areas.                                                  *)
(***************************************************************************)
\* Mutant of KeepsOption: the comprehension without its condition.
KeepsOptionAlways(x) == TRUE

\* if x['value'] != ''
KeepsOption(x) == x.value # <<>>

\* {x['value']: x.string for x in options if x['value'] != ''} over
\* options[i..]: the dict, or the KeyError of x['value'] for an <option> that
\* has no value attribute.
RECURSIVE AreaDict(_, _, _)
AreaDict(options, i, d) ==
    IF i > Len(options) THEN [err |-> "", d |-> d]
    ELSE IF ~options[i].hasValue THEN [err |-> "KeyError", d |-> d]
    ELSE AreaDict(options, i + 1,
                  IF KeepsOption(options[i])
                  THEN DictSet(d, options[i].value, options[i].string)
                  ELSE d)

AreasReturn ==
    /\ call = "get_all_subject_areas"
    /\ pc = "find"
    /\ body.found
    /\ AreaDict(body.rows, 1, EmptyDict).err = ""
    /\ areas' = AreaDict(body.rows, 1, EmptyDict).d
    /\ pc' = "done"
    /\ returned' = TRUE
    /\ UNCHANGED <<call, caller, status, body, index, heap, current_class, classes, schedule,
                   courses, error>>

\* The comprehension raises: nothing is returned.
AreasError ==
    /\ call = "get_all_subject_areas"
    /\ pc = "find"
    /\ body.found
    /\ AreaDict(body.rows, 1, EmptyDict).err # ""
    /\ Raise(AreaDict(body.rows, 1, EmptyDict).err)
    /\ UNCHANGED <<call, caller, status, body, index, heap, current_class, classes, schedule,
                   courses, areas>>

(***************************************************************************)
(* The specification.                                                      *)
(***************************************************************************)
Next ==
    \/ Get
    \/ ValidateRaise
    \/ ValidatePass
    \/ FindFail
    \/ FindRows
    \/ RowHeader
    \/ RowData
    \/ RowDataIndexError
    \/ RowOtherClass
    \/ RowSingleCell
    \/ RowSubsequent
    \/ RowSubsequentIndexError
    \/ RowSubsequentNoClass
    \/ TimetableFlush
    \/ TimetableReturn
    \/ TimetableConstructError
    \/ ScheduleAppend
    \/ SchedulePop
    \/ ScheduleReplace
    \/ ScheduleRegroup
    \/ ScheduleRegroupError
    \/ CallAgain
    \/ ListingSkipFirst
    \/ ListingRowStored
    \/ ListingRowError
    \/ ListingReturn
    \/ AreasReturn
    \/ AreasError

Spec == Init /\ [][Next]_vars

(***************************************************************************)
(* The vocabulary of the properties: the row kinds of the timetable and    *)
(* what a page holds, read off the input alone.                            *)
(***************************************************************************)
Kind(row) ==
    IF row.th THEN "Header"
    ELSE IF row.hasClass /\ row.class = <<"data">> THEN "PrimaryRow"
    ELSE IF Len(row.td) = 1 THEN "Skip"
    ELSE "ContinuationRow"

PrimaryPositions(rows) == {i \in 1..Len(rows) : Kind(rows[i]) = "PrimaryRow"}

\* NoOpenClass when row i is processed: no PrimaryRow comes before it.
NoOpenClassAt(rows, i) == \A j \in 1..(i - 1) : Kind(rows[j]) # "PrimaryRow"

NoContinuationBeforeFirstPrimary(rows) ==
    \A i \in 1..Len(rows) : Kind(rows[i]) = "ContinuationRow" => ~NoOpenClassAt(rows, i)

\* The ContinuationRows that follow row i before the next PrimaryRow or the end.
Followers(rows, i) ==
    {j \in (i + 1)..Len(rows) :
        /\ Kind(rows[j]) = "ContinuationRow"
        /\ \A m \in (i + 1)..j : Kind(rows[m]) # "PrimaryRow"}

\* The n-th smallest element of a finite set of numbers.
RECURSIVE Nth(_, _)
Nth(S, n) ==
    LET m == CHOOSE x \in S : \A y \in S : x <= y
    IN  IF n = 1 THEN m ELSE Nth(S \ {m}, n - 1)

\* The number of Class objects the heap held when the running call began:
\* those of the result the caller kept.
HeapBase == Len(caller.first.schedule.classes)

\* The timetable call is past its row loop and the final append.
Assembled ==
    /\ call = "get_course_timetable"
    /\ pc = "construct" \/ Len(schedule.classes) > 0

\* The timetable call has ended after its parse began.
TimetableEnded ==
    /\ call = "get_course_timetable"
    /\ pc \in {"done", "failed"}
    /\ validate_response(status) = ""
    /\ body.found

(***************************************************************************)
(* C1. Code bug (through C2): for a row sequence with no ContinuationRow   *)
(* before the first PrimaryRow, the class sequence built by the row loop   *)
(* and the final flush has as many elements as there are PrimaryRows.      *)
(* The final append is unconditional, so a page without a PrimaryRow       *)
(* yields the one-element sequence [None].                                 *)
(***************************************************************************)
C1_ClassCountIsPrimaryCount ==
    (Assembled /\ NoContinuationBeforeFirstPrimary(body.rows))
        => Len(classes) = Cardinality(PrimaryPositions(body.rows))

(***************************************************************************)
(* C2. Code bug: a row stream that is empty, or holds only Header and Skip *)
(* rows, ends in a returned schedule with an empty class sequence and an   *)
(* empty grouping, and no failure.                                         *)
(***************************************************************************)
C2_EmptyStreamEmptySchedule ==
    (TimetableEnded /\ \A i \in 1..Len(body.rows) : Kind(body.rows[i]) \in {"Header", "Skip"})
        => /\ returned
           /\ error = ""
           /\ schedule.classes = <<>>
           /\ DOMAIN schedule._classes = {}

(***************************************************************************)
(* C3. Code bug (through C7): once the rows are assembled, the class built *)
(* from the n-th PrimaryRow holds 1 + k dates, k the number of             *)
(* ContinuationRows that follow it before the next PrimaryRow or the end:  *)
(* first the Date of its own cells 5..8, then theirs in document order.    *)
(***************************************************************************)
C3_DatesArePrimaryPlusFollowers ==
    Assembled =>
        \A n \in 1..Cardinality(PrimaryPositions(body.rows)) :
            LET i == Nth(PrimaryPositions(body.rows), n)
                k == Cardinality(Followers(body.rows, i))
                c == heap[HeapBase + n]
            IN  /\ HeapBase + n <= Len(heap)
                /\ Len(c.dates) = 1 + k
                /\ DateValue(c.dates[1]) = ToDate(SubSeq(body.rows[i].td, 5, 8))
                /\ \A m \in 1..k :
                       DateValue(c.dates[1 + m]) = ToDate(body.rows[Nth(Followers(body.rows, i), m)].td)

\* The sum of the lengths of the groups of the given labels.
RECURSIVE SumOfLens(_, _)
SumOfLens(groups, labels) ==
    IF labels = {} THEN 0
    ELSE LET l == CHOOSE x \in labels : TRUE
         IN  Len(groups[l]) + SumOfLens(groups, labels \ {l})

\* The labels of the groups that hold the reference.
GroupsHolding(groups, item) ==
    {l \in DOMAIN groups : \E p \in 1..Len(groups[l]) : groups[l][p] = item}

(***************************************************************************)
(* C4. For every schedule get_course_timetable returns, the sizes of the   *)
(* groups sum to the length of the class sequence and every class is in    *)
(* exactly one group, the one labelled by the class-type table entry of    *)
(* the first two characters of its section code.                           *)
(***************************************************************************)
C4_GroupingPartition ==
    (returned /\ call = "get_course_timetable" /\ caller.op = "") =>
        /\ SumOfLens(schedule._classes, DOMAIN schedule._classes) = Len(schedule.classes)
        /\ \A i \in 1..Len(schedule.classes) :
               LET item == schedule.classes[i]
               IN  /\ item # 0
                   /\ Take(heap[item].section, 2) \in DOMAIN CLASSTYPE
                   /\ GroupsHolding(schedule._classes, item)
                          = {CLASSTYPE[Take(heap[item].section, 2)]}

\* A returned schedule of three classes in two groups.
C4_Witness ==
    /\ returned
    /\ caller.op = ""
    /\ call = "get_course_timetable"
    /\ Len(schedule.classes) = 3
    /\ Cardinality(DOMAIN schedule._classes) = 2

(***************************************************************************)
(* C5. Code bug (through C7): a ContinuationRow met in NoOpenClass makes   *)
(* the call fail; the loop never goes past such a row and no schedule is   *)
(* returned.                                                               *)
(***************************************************************************)
C5_ContinuationWithoutClassFails ==
    call = "get_course_timetable" =>
        \A i \in 1..Len(body.rows) :
            (Kind(body.rows[i]) = "ContinuationRow" /\ NoOpenClassAt(body.rows, i))
                => index < i /\ ~returned

\* A class whose section code has first two characters outside the table.
UnknownPrefix(item) ==
    /\ item # 0
    /\ heap[item].section # NoneStr
    /\ Take(heap[item].section, 2) \notin DOMAIN CLASSTYPE

\* ClassSchedule(classes) has run, to its return or to an exception.
Constructed == call = "get_course_timetable" /\ Len(schedule.classes) > 0 /\ caller.op = ""

(***************************************************************************)
(* C6 as stated: whenever an assembled class has a section code whose      *)
(* first two characters are no key of the class-type table, the            *)
(* construction fails with the unknown-class-type error (KeyError) and     *)
(* nothing is returned.                                                    *)
(***************************************************************************)
C6_UnknownPrefixRaisesKeyError ==
    (Constructed /\ \E i \in 1..Len(schedule.classes) : UnknownPrefix(schedule.classes[i]))
        => ~returned /\ pc = "failed" /\ error = "KeyError"

\* A class _get_class_type raises on.
NoTableEntry(item) == item # 0 /\ (heap[item].section = NoneStr \/ UnknownPrefix(item))

(***************************************************************************)
(* C6 amended: whenever an assembled class has such a section code, the    *)
(* construction fails as a whole and nothing is returned; the error is     *)
(* that of the first class of the sequence without a table entry: the      *)
(* unknown-class-type error (KeyError), or a TypeError when that class has *)
(* a section cell without text (section None). The grouping dropped with   *)
(* the object holds the classes before that one and no other.              *)
(***************************************************************************)
C6_UnknownPrefixFailsWhole ==
    (Constructed /\ \E i \in 1..Len(schedule.classes) : UnknownPrefix(schedule.classes[i])) =>
        LET cs == schedule.classes
            f == CHOOSE i \in 1..Len(cs) :
                     NoTableEntry(cs[i]) /\ \A j \in 1..(i - 1) : ~NoTableEntry(cs[j])
        IN  /\ ~returned
            /\ pc = "failed"
            /\ error = IF UnknownPrefix(cs[f]) THEN "KeyError" ELSE "TypeError"
            /\ \A i \in 1..Len(cs) : GroupsHolding(schedule._classes, cs[i]) # {} <=> i < f

\* The construction failed on the third class, with two classes of known
\* prefixes already grouped.
C6_Witness ==
    /\ Constructed
    /\ Len(schedule.classes) = 3
    /\ UnknownPrefix(schedule.classes[3])
    /\ DOMAIN schedule._classes # {}
    /\ error = "KeyError"

(***************************************************************************)
(* C7. Code bug: every step of the row loop at a row without a header cell *)
(* whose class attribute is not exactly ['data'] (absent, or some other    *)
(* marker) skips the row when it has exactly one cell and otherwise, with  *)
(* a class open and four cells to build the Date from, appends exactly     *)
(* that Date to the open class's dates. A row with another class marker    *)
(* is passed over without the append.                                      *)
(***************************************************************************)
C7_NonDataRowIsContinuation ==
    [][(InTimetableLoop /\ Kind(Row) \in {"Skip", "ContinuationRow"}) =>
          /\ Kind(Row) = "Skip" =>
                 /\ index' = index + 1
                 /\ UNCHANGED <<pc, heap, current_class, classes>>
          /\ (Kind(Row) = "ContinuationRow" /\ Len(Row.td) >= 4 /\ current_class # 0) =>
                 /\ index' = index + 1
                 /\ heap' = [heap EXCEPT ![current_class].dates =
                                      Append(@, DateObject(NextDateId(heap), Row.td))]
                 /\ UNCHANGED <<pc, current_class, classes>>]_vars

\* A listing row the loop body runs through: six cells, an anchor with a link
\* target in the title cell, a numeric unit cell.
ListingRowParses(row) ==
    /\ Len(row.td) >= 6
    /\ row.td[3].a # <<>>
    /\ row.td[3].a[1].hasHref
    /\ ParseInt(row.td[4].string).err = ""

\* A timetable row the loop fails on at position i.
TimetableRowFails(rows, i) ==
    \/ Kind(rows[i]) = "PrimaryRow" /\ Len(rows[i].td) < 8
    \/ /\ ~rows[i].th
       /\ ~rows[i].hasClass
       /\ Len(rows[i].td) # 1
       /\ Len(rows[i].td) < 4 \/ NoOpenClassAt(rows, i)

(***************************************************************************)
(* C8. A parse call returns a complete result or fails as a whole: once an *)
(* exception is raised nothing is returned, and a returned mapping or      *)
(* schedule was built from all the rows, none of which is a row the parse  *)
(* fails on.                                                               *)
(***************************************************************************)
C8_NoPartialResult ==
    /\ error # "" => ~returned /\ pc = "failed"
    /\ returned => error = "" /\ pc = "done"
    /\ (returned /\ call = "get_area_courses") =>
           /\ index = Len(body.rows)
           /\ \A i \in 2..Len(body.rows) : ListingRowParses(body.rows[i])
    /\ (returned /\ call = "get_course_timetable") =>
           /\ index = Len(body.rows)
           /\ \A i \in 1..Len(body.rows) : ~TimetableRowFails(body.rows, i)

\* A listing parse failed on its third row, with the entry of the second row
\* already stored; a timetable parse failed with a class already emitted.
C8_Witness ==
    /\ pc = "failed"
    /\ ~returned
    /\ \/ call = "get_area_courses" /\ index = 2 /\ DOMAIN courses # {}
       \/ call = "get_course_timetable" /\ error = "IndexError" /\ Len(classes) > 0

(***************************************************************************)
(* C9. The mapping get_area_courses returns has one entry per distinct key *)
(* "{term} {catalogue} {campus}" of the rows after the first, each holding *)
(* the Subject of the last row with that key, and no error is raised.      *)
(***************************************************************************)
C9_LastRowWins ==
    (returned /\ call = "get_area_courses") =>
        LET rows == body.rows
            key(i) == ToSubject(rows[i].td).key
        IN  /\ error = ""
            /\ DOMAIN courses = {key(i) : i \in 2..Len(rows)}
            /\ \A i \in 2..Len(rows) :
                   (\A j \in (i + 1)..Len(rows) : key(j) # key(i))
                       => courses[key(i)] = ToSubject(rows[i].td).subject

\* Two data rows with one key and different Subjects, returned as one entry.
C9_Witness ==
    /\ returned
    /\ call = "get_area_courses"
    /\ Len(body.rows) = 3
    /\ ToSubject(body.rows[2].td).key = ToSubject(body.rows[3].td).key
    /\ ToSubject(body.rows[2].td).subject # ToSubject(body.rows[3].td).subject
    /\ Cardinality(DOMAIN courses) = 1

(***************************************************************************)
(* C10. Code bug: for every response status other than 200 the call fails  *)
(* in validate_response, before any parsing step. raise_for_status raises  *)
(* only for 400..599, so a 204 response is parsed.                         *)
(***************************************************************************)
C10_NonSuccessNeverParsed ==
    (pc # "request" /\ status # codes_ok) =>
        /\ pc \in {"validate", "failed"}
        /\ pc = "failed" => error = "HTTPError"
        /\ ~returned

\* The places (label, position) of the grouping that hold the reference.
PlacesHolding(groups, item) ==
    UNION {{<<l, p>> : p \in {q \in 1..Len(groups[l]) : groups[l][q] = item}} : l \in DOMAIN groups}

\* The grouping holds every class of the class sequence in exactly one group,
\* once, and nothing that is not in the class sequence.
GroupingCurrent ==
    /\ \A i \in 1..Len(schedule.classes) :
           Cardinality(PlacesHolding(schedule._classes, schedule.classes[i])) = 1
    /\ \A l \in DOMAIN schedule._classes : \A p \in 1..Len(schedule._classes[l]) :
           \E i \in 1..Len(schedule.classes) : schedule.classes[i] = schedule._classes[l][p]

(***************************************************************************)
(* C11 as stated: whatever the caller has done to the class sequence of a  *)
(* returned schedule (append, pop, item assignment), the grouping holds    *)
(* every class of the current sequence in exactly one group and no other.  *)
(***************************************************************************)
C11_GroupingFollowsClassList == HoldsSchedule => GroupingCurrent

(***************************************************************************)
(* C11 amended: the grouping is computed when the schedule is constructed  *)
(* and when get_class_type() is called, not when the class sequence        *)
(* changes: after the construction and after every call of                 *)
(* get_class_type() that returns, the grouping holds every class of the    *)
(* current class sequence in exactly one group and no other class.         *)
(***************************************************************************)
C11_GroupingCurrentAfterGetClassType ==
    (HoldsSchedule /\ caller.op \in {"", "get_class_type"}) => GroupingCurrent

\* get_class_type() has returned after a change of the class sequence.
C11_Witness ==
    /\ HoldsSchedule
    /\ caller.op = "get_class_type"
    /\ caller.edits > 0
    /\ schedule.classes # classes
    /\ Len(schedule.classes) > 0

AreasReturned == call = "get_all_subject_areas" /\ returned

\* The places of the <option> elements whose value is not the empty string.
NonEmptyOptions == {i \in 1..Len(body.rows) : body.rows[i].value # <<>>}

\* C13: the key set of the mapping get_all_subject_areas returns is exactly
\* the set of non-empty option values: an option with an empty value adds no
\* key, every option with a non-empty value has its value as a key, and a
\* value that occurs several times maps to the display name of its last
\* occurrence.
C13_AreaKeysAreNonEmptyValues ==
    AreasReturned =>
        /\ DOMAIN areas = {body.rows[i].value : i \in NonEmptyOptions}
        /\ <<>> \notin DOMAIN areas
        /\ \A i \in NonEmptyOptions :
               (\A j \in NonEmptyOptions : body.rows[j].value = body.rows[i].value => j <= i)
                   => areas[body.rows[i].value] = body.rows[i].string

\* An option with an empty value and a non-empty value that occurs twice with
\* two display names: one entry.
C13_Witness ==
    /\ AreasReturned
    /\ Len(body.rows) = 3
    /\ \E i \in 1..3 : body.rows[i].value = <<>>
    /\ \E i, j \in NonEmptyOptions :
           /\ i < j
           /\ body.rows[i].value = body.rows[j].value
           /\ body.rows[i].string # body.rows[j].string
    /\ Cardinality(DOMAIN areas) = 1

(***************************************************************************)
(* get_area_courses: the rows the mapping is built from.                   *)
(***************************************************************************)
\* The call get_area_courses has returned its mapping.
ListingReturned == call = "get_area_courses" /\ returned

\* The mapping holds the Subject built from the row at place i.
HoldsSubjectOf(i) ==
    LET r == ToSubject(body.rows[i].td)
    IN  /\ r.err = ""
        /\ r.key \in DOMAIN courses
        /\ courses[r.key] = r.subject

\* C14: every row after the first must have exactly 6 cells: a returned
\* listing mapping holds no Subject built from a row with fewer or with more
\* than 6 cells.
C14_SubjectRowsHaveSixCells ==
    ListingReturned =>
        \A i \in 2..Len(body.rows) : HoldsSubjectOf(i) => Len(body.rows[i].td) = 6

\* The keys of the rows at places 2..n.
KeysOfRows(n) == {ToSubject(body.rows[i].td).key : i \in 2..n}

\* C15: the row at index 0 is skipped by position alone, whatever its cells
\* are, and no later row is skipped: no exception comes from the first row,
\* and after k rows the keys of the mapping are exactly the keys of the rows
\* at places 2..k, so the returned mapping is built from exactly the rows
\* after the first.
C15_FirstRowSkippedByPosition ==
    call = "get_area_courses" =>
        /\ (pc = "failed" /\ error \notin {"HTTPError", "AttributeError"}) => index >= 1
        /\ pc = "loop" => DOMAIN courses = KeysOfRows(index)
        /\ returned =>
               /\ DOMAIN courses = KeysOfRows(Len(body.rows))
               /\ \A i \in 2..Len(body.rows) : ToSubject(body.rows[i].td).key \in DOMAIN courses

\* A first row that would parse to a Subject, whose key no later row has, is
\* not in the returned mapping, and the two rows after it are.
C15_Witness ==
    /\ ListingReturned
    /\ Len(body.rows) = 3
    /\ ListingRowParses(body.rows[1])
    /\ ToSubject(body.rows[1].td).key \notin DOMAIN courses
    /\ HoldsSubjectOf(3)
    /\ ToSubject(body.rows[2].td).key \in DOMAIN courses

(***************************************************************************)
(* get_course_timetable: the fields and the order of the classes.          *)
(***************************************************************************)
\* The row the n-th Class object of the call was built from.
PrimaryRowOf(n) == body.rows[Nth(PrimaryPositions(body.rows), n)]

\* get_course_timetable has returned and the caller has not touched the
\* schedule.
TimetableReturned == call = "get_course_timetable" /\ returned /\ caller.op = ""

\* C16: every Class of a returned schedule has an integer size and an integer
\* available value, not the raw text of the cell it was read from.
C16_SizeAndAvailableAreIntegers ==
    TimetableReturned =>
        \A n \in 1..Len(schedule.classes) :
            /\ heap[schedule.classes[n]].size # PrimaryRowOf(n).td[3]
            /\ heap[schedule.classes[n]].available # PrimaryRowOf(n).td[4]

\* The references HeapBase + 1 .. HeapBase + k, in this order.
RefsUpTo(k) == [n \in 1..k |-> HeapBase + n]

\* The number of PrimaryRows among the rows the loop has passed.
PrimarySeen == Cardinality({i \in PrimaryPositions(body.rows) : i <= index})

\* C17: classes are emitted in document order, each once. While the rows are
\* read, the emitted sequence holds the classes of all PrimaryRows passed but
\* the last, in row order, and the last is the open class; at the end of the
\* stream the open class becomes the final element; the i-th class of the
\* returned sequence is the one built from the i-th PrimaryRow.
C17_EmittedInDocumentOrder ==
    (call = "get_course_timetable" /\ caller.op = "") =>
        /\ pc = "loop" =>
               /\ Len(heap) = HeapBase + PrimarySeen
               /\ classes = RefsUpTo(PrimarySeen - 1)
               /\ current_class = IF PrimarySeen = 0 THEN 0 ELSE HeapBase + PrimarySeen
        /\ (pc \in {"construct", "done"} /\ PrimarySeen > 0) => classes = RefsUpTo(PrimarySeen)
        /\ returned =>
               /\ schedule.classes = RefsUpTo(Cardinality(PrimaryPositions(body.rows)))
               /\ Len(heap) = HeapBase + Len(schedule.classes)
        /\ pc \in {"loop", "construct", "done"} =>
               \A n \in 1..(Len(heap) - HeapBase) :
                   /\ heap[HeapBase + n].number = PrimaryRowOf(n).td[1]
                   /\ heap[HeapBase + n].section = PrimaryRowOf(n).td[2]
                   /\ DateValue(heap[HeapBase + n].dates[1]) = ToDate(SubSeq(PrimaryRowOf(n).td, 5, 8))

\* Three PrimaryRows, three classes returned.
C17_Witness ==
    /\ TimetableReturned
    /\ Len(schedule.classes) = 3
    /\ Cardinality(PrimaryPositions(body.rows)) = 3
    /\ heap[schedule.classes[1]].section # heap[schedule.classes[2]].section

\* C18: a Header row (one that holds a header cell, also when it carries the
\* "data" marker) and a Skip row (a non-data row with exactly one cell) leave
\* the assembler as it is, whether a class is open or not: the loop moves to
\* the next row, and the open class, its dates (all of the heap) and the
\* classes emitted so far are unchanged.
C18_HeaderAndSkipRowsChangeNothing ==
    [][(InTimetableLoop /\ Kind(Row) \in {"Header", "Skip"}) =>
          /\ index' = index + 1
          /\ UNCHANGED <<pc, error, heap, current_class, classes, schedule>>]_vars

\* A header row with the "data" marker has been passed with a class open.
C18_Witness ==
    /\ call = "get_course_timetable"
    /\ pc = "loop"
    /\ index = 2
    /\ Kind(body.rows[1]) = "PrimaryRow"
    /\ body.rows[2].th /\ body.rows[2].hasClass /\ body.rows[2].class = <<"data">>
    /\ Len(body.rows[2].td) >= 8
    /\ current_class = HeapBase + 1
    /\ classes = <<>>
    /\ Len(heap) = HeapBase + 1
    /\ Len(heap[current_class].dates) = 1

\* The place of a class in the class sequence of the schedule.
PlaceOf(item) == CHOOSE i \in 1..Len(schedule.classes) : schedule.classes[i] = item

\* The grouping is the one get_class_type made of the class sequence as it
\* is: at construction, or at the caller's call of it.
GroupingMade ==
    /\ call = "get_course_timetable"
    /\ pc \in {"done", "failed"}
    /\ caller.op \in {"", "get_class_type", "get_class_type raised"}

\* C19: in every group of the grouping of a constructed ClassSchedule the
\* classes are in the order they have in the schedule's class sequence.
C19_GroupOrderIsSequenceOrder ==
    GroupingMade =>
        \A l \in DOMAIN schedule._classes :
            \A p, q \in 1..Len(schedule._classes[l]) :
                p < q => PlaceOf(schedule._classes[l][p]) < PlaceOf(schedule._classes[l][q])

\* A returned schedule with a group of two classes that has a class of
\* another group between them.
C19_Witness ==
    /\ TimetableReturned
    /\ Len(schedule.classes) = 3
    /\ \E l \in DOMAIN schedule._classes :
           schedule._classes[l] = <<schedule.classes[1], schedule.classes[3]>>

\* The Date objects of the heap, as pairs of the class and the place in its
\* dates.
DateHolders(h) == UNION {{<<r, p>> : p \in 1..Len(h[r].dates)} : r \in 1..Len(h)}

\* No Date object is in the dates of two classes, or twice in those of one.
DatesOwnedOnce(h) ==
    \A x, y \in DateHolders(h) : h[x[1]].dates[x[2]].id = h[y[1]].dates[y[2]].id => x = y

\* The classes emitted so far, in this call and in an earlier one.
Emitted ==
    {classes[i] : i \in 1..Len(classes)} \cup
    {caller.first.schedule.classes[i] : i \in 1..Len(caller.first.schedule.classes)}

\* s is t, or t with elements appended.
IsPrefix(s, t) == Len(s) <= Len(t) /\ SubSeq(t, 1, Len(s)) = s

\* C20: once a class is emitted no later row changes it. Every step of
\* get_course_timetable leaves the emitted classes as they are; a
\* ContinuationRow at most appends to the dates of the open class and
\* changes nothing else; inside the row loop the open class is not in the
\* emitted sequence; no Date is held by two classes.
C20_EmittedClassesAreFinal ==
    [][call = "get_course_timetable" =>
          /\ \A r \in Emitted \ {0} : heap'[r] = heap[r]
          /\ (InTimetableLoop /\ Kind(Row) = "ContinuationRow") =>
                 /\ classes' = classes
                 /\ current_class' = current_class
                 /\ Len(heap') = Len(heap)
                 /\ \A r \in 1..Len(heap) :
                        /\ r # current_class => heap'[r] = heap[r]
                        /\ [heap'[r] EXCEPT !.dates = <<>>] = [heap[r] EXCEPT !.dates = <<>>]
                        /\ IsPrefix(heap[r].dates, heap'[r].dates)
          /\ pc = "loop" => current_class \notin Emitted
          /\ pc' = "loop" => current_class' \notin Emitted'
          /\ DatesOwnedOnce(heap) /\ DatesOwnedOnce(heap')]_vars

\* A class is emitted, and the class opened after it has got a second Date
\* from a ContinuationRow.
C20_Witness ==
    /\ call = "get_course_timetable"
    /\ pc = "loop"
    /\ index = 3
    /\ Kind(body.rows[3]) = "ContinuationRow"
    /\ classes = <<HeapBase + 1>>
    /\ current_class = HeapBase + 2
    /\ Len(heap[current_class].dates) = 2
    /\ Len(heap[HeapBase + 1].dates) = 1

=============================================================================
